---------------------------- MODULE Spec2Model ----------------------------
(***************************************************************************)
(* A model of the data-binding engine of binder.go: the content            *)
(* dispatcher (binder.Bind), the struct populator (binder.bindData), the   *)
(* custom-hook check (unmarshalField and friends) and the type coercion    *)
(* engine (setWithProperType and the set*Field helpers).                   *)
(*                                                                         *)
(* Strings are sequences of one-character strings.  Integers are kept as   *)
(* a sign and a canonical sequence of decimal digits, so that the 32 and   *)
(* 64 bit ranges are exact.  Floating point values are kept as the decimal *)
(* real the text denotes (sign, significant digits, decimal order); the    *)
(* rounding to the nearest binary value is not modelled.  The texts fed to *)
(* ParseFloat hold no hexadecimal prefix and no underscore.                *)
(***************************************************************************)
EXTENDS Integers, Sequences, FiniteSets, TLC

VARIABLES
    op,      \* the operation the behaviour calls: "Bind", "bindData", "setWithProperType"
    pc,      \* "call" before the operation runs, "done" after it returned or panicked
    req,     \* the request context handed to Bind
    dst,     \* the destination: its shape, its type and its current value
    entry,   \* the destination's value on entry
    data,    \* the value source handed to bindData by a direct call
    arg,     \* the string handed to setWithProperType by a direct call
    err,     \* the error the operation returned
    log      \* the steps the operation took, in order

vars == <<op, pc, req, dst, entry, data, arg, err, log>>

-----------------------------------------------------------------------------
(* Bounds of the model *)

\* the largest number of values one key of a value source holds
MaxVals == 3

-----------------------------------------------------------------------------
(* Texts *)

DigitChars == <<"0", "1", "2", "3", "4", "5", "6", "7", "8", "9">>

IsDigit(c) == \E i \in DOMAIN DigitChars : DigitChars[i] = c

DigitVal(c) == (CHOOSE i \in DOMAIN DigitChars : DigitChars[i] = c) - 1

AllDigits(s) == \A i \in DOMAIN s : IsDigit(s[i])

Drop(s, n) == SubSeq(s, n + 1, Len(s))

ToDigits(s) == [i \in DOMAIN s |-> DigitVal(s[i])]

RECURSIVE StripZeros(_)
StripZeros(ds) ==
    IF ds # <<>> /\ ds[1] = 0 THEN StripZeros(Tail(ds)) ELSE ds

RECURSIVE StripTrailingZeros(_)
StripTrailingZeros(ds) ==
    IF ds # <<>> /\ ds[Len(ds)] = 0
    THEN StripTrailingZeros(SubSeq(ds, 1, Len(ds) - 1))
    ELSE ds

\* a < b for two magnitudes without leading zeros
MagLT(a, b) ==
    \/ Len(a) < Len(b)
    \/ /\ Len(a) = Len(b)
       /\ \E i \in DOMAIN a :
            /\ a[i] < b[i]
            /\ \A j \in 1..(i - 1) : a[j] = b[j]

LowerChar(c) ==
    CASE c = "I" -> "i" [] c = "N" -> "n" [] c = "F" -> "f" [] c = "A" -> "a"
      [] c = "T" -> "t" [] c = "Y" -> "y" [] OTHER -> c

Lower(s) == [i \in DOMAIN s |-> LowerChar(s[i])]

-----------------------------------------------------------------------------
(* Values of the destination's slots *)

IntV(neg, mag) == [t |-> "int", neg |-> neg, mag |-> mag]
FloatV(neg, digits, order) ==
    [t |-> "float", neg |-> neg, digits |-> digits, order |-> order, special |-> "no"]
InfV(neg) ==
    [t |-> "float", neg |-> neg, digits |-> <<>>, order |-> 0, special |-> "inf"]
NaNV ==
    [t |-> "float", neg |-> FALSE, digits |-> <<>>, order |-> 0, special |-> "nan"]
BoolV(b) == [t |-> "bool", b |-> b]
StrV(s) == [t |-> "string", s |-> s]
NilV == [t |-> "nil"]
PtrV(v) == [t |-> "ptr", v |-> v]
SliceV(elems) == [t |-> "slice", elems |-> elems]
StructV(fs) == [t |-> "struct", fs |-> fs]
CustomV(s) == [t |-> "custom", s |-> s]
OpaqueV == [t |-> "opaque"]

-----------------------------------------------------------------------------
(* strconv, as binder.go calls it *)

IntSize(bitSize) == IF bitSize = 0 THEN 64 ELSE bitSize

\* 2^bitSize - 1
MaxUintMag(bitSize) ==
    CASE bitSize = 8 -> <<2,5,5>>
      [] bitSize = 16 -> <<6,5,5,3,5>>
      [] bitSize = 32 -> <<4,2,9,4,9,6,7,2,9,5>>
      [] bitSize = 64 -> <<1,8,4,4,6,7,4,4,0,7,3,7,0,9,5,5,1,6,1,5>>

\* 2^(bitSize - 1)
IntCutoffMag(bitSize) ==
    CASE bitSize = 8 -> <<1,2,8>>
      [] bitSize = 16 -> <<3,2,7,6,8>>
      [] bitSize = 32 -> <<2,1,4,7,4,8,3,6,4,8>>
      [] bitSize = 64 -> <<9,2,2,3,3,7,2,0,3,6,8,5,4,7,7,5,8,0,8>>

\* 2^(bitSize - 1) - 1
MaxIntMag(bitSize) ==
    CASE bitSize = 8 -> <<1,2,7>>
      [] bitSize = 16 -> <<3,2,7,6,7>>
      [] bitSize = 32 -> <<2,1,4,7,4,8,3,6,4,7>>
      [] bitSize = 64 -> <<9,2,2,3,3,7,2,0,3,6,8,5,4,7,7,5,8,0,7>>

RECURSIVE ScanUint(_, _, _, _)
ScanUint(s, i, acc, maxMag) ==
    IF i > Len(s) THEN [mag |-> acc, err |-> "nil"]
    ELSE IF ~IsDigit(s[i]) THEN [mag |-> <<>>, err |-> "syntax"]
    ELSE LET n == StripZeros(Append(acc, DigitVal(s[i])))
         IN  IF MagLT(maxMag, n) THEN [mag |-> maxMag, err |-> "range"]
             ELSE ScanUint(s, i + 1, n, maxMag)

\* strconv.ParseUint(s, 10, bitSize)
ParseUint(s, bitSize) ==
    IF s = <<>> THEN [mag |-> <<>>, err |-> "syntax"]
    ELSE ScanUint(s, 1, <<>>, MaxUintMag(IntSize(bitSize)))

HasSign(s) == s # <<>> /\ s[1] \in {"+", "-"}

Unsigned(s) == IF HasSign(s) THEN Tail(s) ELSE s

\* the end of ParseInt: the sign neg applied to the magnitude un that ParseUint
\* read, checked against cutoff = 2^(bitSize - 1)
SignedResult(neg, un, cutoff, bitSize) ==
    IF un.err = "syntax"
    THEN [neg |-> FALSE, mag |-> <<>>, err |-> "syntax"]
    ELSE IF ~neg /\ ~MagLT(un.mag, cutoff)
    THEN [neg |-> FALSE, mag |-> MaxIntMag(bitSize), err |-> "range"]
    ELSE IF neg /\ MagLT(cutoff, un.mag)
    THEN [neg |-> TRUE, mag |-> cutoff, err |-> "range"]
    ELSE [neg |-> neg /\ un.mag # <<>>, mag |-> un.mag, err |-> "nil"]

\* strconv.ParseInt(s, 10, bitSize)
ParseInt(s, bitSize) ==
    IF s = <<>> THEN [neg |-> FALSE, mag |-> <<>>, err |-> "syntax"]
    ELSE SignedResult(s[1] = "-", ParseUint(Unsigned(s), bitSize),
                      IntCutoffMag(IntSize(bitSize)), IntSize(bitSize))

\* strconv.ParseBool(s)
ParseBool(s) ==
    IF s \in {<<"1">>, <<"t">>, <<"T">>, <<"T","R","U","E">>,
              <<"t","r","u","e">>, <<"T","r","u","e">>}
    THEN [b |-> TRUE, err |-> "nil"]
    ELSE IF s \in {<<"0">>, <<"f">>, <<"F">>, <<"F","A","L","S","E">>,
                   <<"f","a","l","s","e">>, <<"F","a","l","s","e">>}
    THEN [b |-> FALSE, err |-> "nil"]
    ELSE [b |-> FALSE, err |-> "syntax"]

\* the least decimal that rounds beyond the largest finite value of the width,
\* as 0.d1d2... * 10^order: 2^128 - 2^103 and 2^1024 - 2^970
FloatOverflowOrder(bitSize) == IF bitSize = 32 THEN 39 ELSE 309

FloatOverflowDigits(bitSize) ==
    IF bitSize = 32
    THEN <<
         3,4,0,2,8,2,3,5,6,7,7,9,7,3,3,6,6,1,6,3,7,5,3,9,3,9,5,4,5,8,1,4,2,5,6,8,4,4,8
         >>
    ELSE <<
         1,7,9,7,6,9,3,1,3,4,8,6,2,3,1,5,8,0,7,9,3,7,2,8,9,7,1,4,0,5,3,0,3,4,1,5,0,7,9,9,
         3,4,1,3,2,7,1,0,0,3,7,8,2,6,9,3,6,1,7,3,7,7,8,9,8,0,4,4,4,9,6,8,2,9,2,7,6,4,7,5,
         0,9,4,6,6,4,9,0,1,7,9,7,7,5,8,7,2,0,7,0,9,6,3,3,0,2,8,6,4,1,6,6,9,2,8,8,7,9,1,0,
         9,4,6,5,5,5,5,4,7,8,5,1,9,4,0,4,0,2,6,3,0,6,5,7,4,8,8,6,7,1,5,0,5,8,2,0,6,8,1,9,
         0,8,9,0,2,0,0,0,7,0,8,3,8,3,6,7,6,2,7,3,8,5,4,8,4,5,8,1,7,7,1,1,5,3,1,7,6,4,4,7,
         5,7,3,0,2,7,0,0,6,9,8,5,5,5,7,1,3,6,6,9,5,9,6,2,2,8,4,2,9,1,4,8,1,9,8,6,0,8,3,4,
         9,3,6,4,7,5,2,9,2,7,1,9,0,7,4,1,6,8,4,4,4,3,6,5,5,1,0,7,0,4,3,4,2,7,1,1,5,5,9,6,
         9,9,5,0,8,0,9,3,0,4,2,8,8,0,1,7,7,9,0,4,1,7,4,4,9,7,7,9,2
         >>

Pad(ds, n) == [i \in 1..n |-> IF i <= Len(ds) THEN ds[i] ELSE 0]

\* 0.a < 0.b for two sequences of fraction digits
FracLT(a, b) ==
    LET n == IF Len(a) > Len(b) THEN Len(a) ELSE Len(b)
    IN  MagLT(Pad(a, n), Pad(b, n))

\* the exponent's digits, accumulated as strconv does: no further once 10000 is reached
RECURSIVE ExpVal(_, _)
ExpVal(ds, e) ==
    IF ds = <<>> THEN e
    ELSE ExpVal(Tail(ds), IF e < 10000 THEN e * 10 + ds[1] ELSE e)

IndexOfE(s) ==
    IF \E i \in DOMAIN s : s[i] \in {"e", "E"}
    THEN CHOOSE i \in DOMAIN s :
            /\ s[i] \in {"e", "E"}
            /\ \A j \in 1..(i - 1) : s[j] \notin {"e", "E"}
    ELSE 0

\* the decimal 0.d1d2.. * 10^order with the significant digits sig; a range
\* error beyond the width
DecimalValue(neg, sig, order, bitSize) ==
    IF sig = <<>>
    THEN [v |-> FloatV(neg, <<>>, 0), err |-> "nil"]
    ELSE IF \/ order > FloatOverflowOrder(bitSize)
            \/ /\ order = FloatOverflowOrder(bitSize)
               /\ ~FracLT(StripTrailingZeros(sig), FloatOverflowDigits(bitSize))
    THEN [v |-> InfV(neg), err |-> "range"]
    ELSE [v |-> FloatV(neg, StripTrailingZeros(sig), order), err |-> "nil"]

\* the mantissa's digits, ip before the point and fp after it, times 10^exp
ReadDigits(neg, ip, fp, exp, bitSize) ==
    DecimalValue(neg, StripZeros(ToDigits(ip \o fp)),
                 Len(ip) - (Len(ip \o fp) - Len(StripZeros(ToDigits(ip \o fp)))) + exp,
                 bitSize)

\* a decimal: the mantissa mant, without its sign and with its point at index
\* dot, and the exponent's text expS after the e at index ie (0: no exponent)
ReadFloat(neg, mant, dot, ie, expS, bitSize) ==
    IF \/ Cardinality({i \in DOMAIN mant : mant[i] = "."}) > 1
       \/ Len(mant) = 0
       \/ mant = <<".">>
       \/ ~AllDigits(SubSeq(mant, 1, dot - 1) \o Drop(mant, dot))
       \/ ie # 0 /\ (Unsigned(expS) = <<>> \/ ~AllDigits(Unsigned(expS)))
    THEN [v |-> FloatV(FALSE, <<>>, 0), err |-> "syntax"]
    ELSE ReadDigits(neg, SubSeq(mant, 1, dot - 1), Drop(mant, dot),
                    IF expS # <<>> /\ expS[1] = "-"
                    THEN 0 - ExpVal(ToDigits(Unsigned(expS)), 0)
                    ELSE ExpVal(ToDigits(Unsigned(expS)), 0),
                    bitSize)

DotIndex(mant) ==
    IF \E i \in DOMAIN mant : mant[i] = "."
    THEN CHOOSE i \in DOMAIN mant : mant[i] = "." /\ \A j \in 1..(i - 1) : mant[j] # "."
    ELSE Len(mant) + 1

SplitFloat(s, mant, ie, bitSize) ==
    ReadFloat(s # <<>> /\ s[1] = "-", mant, DotIndex(mant), ie,
              IF ie = 0 THEN <<>> ELSE Drop(s, ie), bitSize)

\* strconv.ParseFloat(s, bitSize): the special values, then a decimal with an
\* optional fraction and an optional decimal exponent
ParseFloat(s, bitSize) ==
    IF Lower(Unsigned(s)) \in {<<"i","n","f">>, <<"i","n","f","i","n","i","t","y">>}
    THEN [v |-> InfV(s[1] = "-"), err |-> "nil"]
    ELSE IF Lower(s) = <<"n","a","n">>
    THEN [v |-> NaNV, err |-> "nil"]
    ELSE SplitFloat(s,
                    Unsigned(IF IndexOfE(s) = 0 THEN s ELSE SubSeq(s, 1, IndexOfE(s) - 1)),
                    IndexOfE(s), bitSize)

-----------------------------------------------------------------------------
(* Types of the destination's fields, as reflect reports them *)

SignedKinds == {"int", "int8", "int16", "int32", "int64"}
UnsignedKinds == {"uint", "uint8", "uint16", "uint32", "uint64"}
FloatKinds == {"float32", "float64"}
ScalarKinds == SignedKinds \cup UnsignedKinds \cup FloatKinds \cup {"bool", "string"}

\* hook: the pointer to the type implements BindUnmarshaler
OfKind(kind) == [kind |-> kind, hook |-> FALSE]
PtrTo(T) == [kind |-> "ptr", hook |-> FALSE, elem |-> T]
SliceOf(T) == [kind |-> "slice", hook |-> FALSE, elem |-> T]
StructOf(fields) == [kind |-> "struct", hook |-> FALSE, fields |-> fields]
WithHook(T) == [T EXCEPT !.hook = TRUE]

\* a field of a struct: its name, its form tag, whether CanSet reports it settable
Field(name, tag, settable, T) ==
    [name |-> name, tag |-> tag, settable |-> settable, type |-> T]

BitSize(kind) ==
    CASE kind \in {"int", "uint"} -> 0
      [] kind \in {"int8", "uint8"} -> 8
      [] kind \in {"int16", "uint16"} -> 16
      [] kind \in {"int32", "uint32", "float32"} -> 32
      [] kind \in {"int64", "uint64", "float64"} -> 64

\* the zero value of a type
RECURSIVE Zero(_)
Zero(T) ==
    CASE T.kind = "struct" ->
            StructV([i \in DOMAIN T.fields |-> Zero(T.fields[i].type)])
      [] T.kind # "struct" /\ T.hook -> CustomV(<<>>)
      [] T.kind \in SignedKinds \cup UnsignedKinds -> IntV(FALSE, <<>>)
      [] T.kind \in FloatKinds -> FloatV(FALSE, <<>>, 0)
      [] T.kind = "bool" -> BoolV(FALSE)
      [] T.kind = "string" -> StrV(<<>>)
      [] T.kind = "ptr" -> NilV
      [] T.kind = "slice" -> SliceV(<<>>)
      [] OTHER -> OpaqueV

-----------------------------------------------------------------------------
(* The custom hook *)

\* BindUnmarshaler.UnmarshalParam on a fresh value of type T.  The method is the
\* destination type's own; this one rejects the empty text and keeps any other.
UnmarshalParam(param, T) ==
    IF param = <<>>
    THEN [val |-> Zero(T), err |-> "custom"]
    ELSE [val |-> CustomV(param), err |-> "nil"]

bindUnmarshaler(T) == T.hook

\* ok: the hook applied; val: the slot afterwards
Unmarshaled(ok, u) == [ok |-> ok, err |-> u.err, val |-> u.val]

unmarshalFieldNonPtr(value, slot, T) ==
    IF bindUnmarshaler(T)
    THEN Unmarshaled(TRUE, UnmarshalParam(value, T))
    ELSE Unmarshaled(FALSE, [err |-> "nil", val |-> slot])

\* the pointer that refers to the pointee u.val
Referring(u) == [ok |-> u.ok, err |-> u.err, val |-> PtrV(u.val)]

unmarshalFieldPtr(value, slot, T) ==
    Referring(unmarshalFieldNonPtr(value,
                                   IF slot = NilV THEN Zero(T.elem) ELSE slot.v,
                                   T.elem))

unmarshalField(T, val, slot) ==
    IF T.kind = "ptr"
    THEN unmarshalFieldPtr(val, slot, T)
    ELSE unmarshalFieldNonPtr(val, slot, T)

-----------------------------------------------------------------------------
(* The type coercion engine *)

\* the field set when the parse succeeded, with the parse's error
SetIfParsed(p, v, slot) == [val |-> IF p.err = "nil" THEN v ELSE slot, err |-> p.err]

IntOf(p) == IntV(p.neg, p.mag)
UintOf(p) == IntV(FALSE, p.mag)
BoolOf(p) == BoolV(p.b)
FloatOf(p) == p.v

StoreInt(p, slot) == SetIfParsed(p, IntOf(p), slot)
StoreUint(p, slot) == SetIfParsed(p, UintOf(p), slot)
StoreBool(p, slot) == SetIfParsed(p, BoolOf(p), slot)
StoreFloat(p, slot) == SetIfParsed(p, FloatOf(p), slot)

\* setIntField without the default of line 227: the empty text goes to ParseInt
setIntFieldNoDefault(value, bitSize, slot) == StoreInt(ParseInt(value, bitSize), slot)

setIntField(value, bitSize, slot) ==
    StoreInt(ParseInt(IF value = <<>> THEN <<"0">> ELSE value, bitSize), slot)

setUintField(value, bitSize, slot) ==
    StoreUint(ParseUint(IF value = <<>> THEN <<"0">> ELSE value, bitSize), slot)

setBoolField(value, slot) ==
    StoreBool(ParseBool(IF value = <<>> THEN <<"f","a","l","s","e">> ELSE value), slot)

setFloatField(value, bitSize, slot) ==
    StoreFloat(ParseFloat(IF value = <<>> THEN <<"0",".","0">> ELSE value, bitSize), slot)

\* the second switch of setWithProperType, on the kind
SetByKind(kind, val, slot) ==
    CASE kind \in SignedKinds -> setIntField(val, BitSize(kind), slot)
      [] kind \in UnsignedKinds -> setUintField(val, BitSize(kind), slot)
      [] kind = "bool" -> setBoolField(val, slot)
      [] kind \in FloatKinds -> setFloatField(val, BitSize(kind), slot)
      [] kind = "string" -> [val |-> StrV(val), err |-> "nil"]
      [] OTHER -> [val |-> slot, err |-> "unknown type"]

\* the package variables Int .. Bool the first switch compares the field's type
\* with: one per scalar kind, each a pointer to that kind
PtrTypeDeclared(T) == T.elem.kind \in ScalarKinds /\ ~T.elem.hook

\* the type of the variable whose address the matching case stores
StoredKind(kind) ==
    CASE kind \in SignedKinds -> "int64"
      [] kind \in UnsignedKinds -> "uint64"
      [] kind \in FloatKinds -> "float64"
      [] OTHER -> kind

\* the value the matching case stores, the parse error dropped
StoredValue(kind, val) ==
    CASE kind \in SignedKinds -> IntOf(ParseInt(val, BitSize(kind)))
      [] kind \in UnsignedKinds -> UintOf(ParseUint(val, BitSize(kind)))
      [] kind \in FloatKinds -> FloatOf(ParseFloat(val, BitSize(kind)))
      [] kind = "bool" -> BoolOf(ParseBool(val))
      [] OTHER -> StrV(val)

\* the first switch of setWithProperType, on a pointer field's type:
\* reflect's Set panics unless the stored pointer has the field's type
PtrSwitch(T, val, slot) ==
    IF ~PtrTypeDeclared(T) THEN [val |-> slot, panic |-> FALSE]
    ELSE IF StoredKind(T.elem.kind) # T.elem.kind THEN [val |-> slot, panic |-> TRUE]
    ELSE [val |-> PtrV(StoredValue(T.elem.kind, val)), panic |-> FALSE]

\* what setWithProperType returns: the slot, the error, and hook: UnmarshalParam
\* was called
Coerced(r, hook) == [val |-> r.val, err |-> r.err, hook |-> hook]

\* a pointer field falls through the second switch to its default
PtrFallsThrough(p) ==
    [val |-> p.val, err |-> IF p.panic THEN "panic" ELSE "unknown type"]

\* setWithProperType after its call of unmarshalField returned u
AfterUnmarshal(T, val, u) ==
    IF u.ok THEN Coerced(u, TRUE)
    ELSE IF T.kind = "ptr" THEN Coerced(PtrFallsThrough(PtrSwitch(T, val, u.val)), FALSE)
    ELSE Coerced(SetByKind(T.kind, val, u.val), FALSE)

\* setWithProperType(valueKind, val, structField)
setWithProperType(T, val, slot) == AfterUnmarshal(T, val, unmarshalField(T, val, slot))

-----------------------------------------------------------------------------
(* The struct populator *)

\* a step of a call: "bindData" (lines 32 and 65), "codec" (lines 45 and 55),
\* "recurse" (line 93), "lookup" (line 100), "hook" (line 105, the hook
\* applied), "expand" (line 115), "scalar" (line 123)
Ev(kind, path, key, text) ==
    [ev |-> kind, path |-> path, key |-> key, text |-> text]

\* the source key of a field: its form tag, else its name
InputFieldName(f) == IF f.tag = "" THEN f.name ELSE f.tag

\* the loop of lines 116 to 120 from index i on: the slice made so far, and the
\* first error
RECURSIVE FillSlice(_, _, _, _)
\* the loop's body once setWithProperType returned r for index i
FillNext(T, inputValue, i, slice, r) ==
    IF r.err # "nil" THEN [val |-> slice, err |-> r.err]
    ELSE FillSlice(T, inputValue, i + 1, [slice EXCEPT ![i] = r.val])

FillSlice(T, inputValue, i, slice) ==
    IF i > Len(inputValue) THEN [val |-> slice, err |-> "nil"]
    ELSE FillNext(T, inputValue, i, slice, setWithProperType(T, inputValue[i], slice[i]))

\* the field's outcome: its value, the error, the steps taken
Outcome(val, error, steps) == [val |-> val, err |-> error, log |-> steps]

\* lines 112 to 121, were the elements appended to the slice the field held
ExpandedAppending(r, slot, steps) ==
    Outcome(IF r.err = "nil" THEN SliceV(slot.elems \o r.val) ELSE slot, r.err, steps)

\* lines 112 to 121: the slice r.val is assigned only when every element was set
Expanded(r, slot, steps) ==
    Outcome(IF r.err = "nil" THEN SliceV(r.val) ELSE slot, r.err, steps)

\* line 123
Scalared(r, steps) == Outcome(r.val, r.err, steps)

\* lines 105 to 126, were the slice expansion tried before the hook's result
AfterFieldHookSliceFirst(f, inputValue, u, path, looked) ==
    IF f.type.kind = "slice" /\ Len(inputValue) > 0
    THEN Expanded(FillSlice(f.type.elem, inputValue, 1,
                            [i \in DOMAIN inputValue |-> Zero(f.type.elem)]),
                  u.val,
                  Append(looked, Ev("expand", path, InputFieldName(f), <<>>)))
    ELSE IF u.ok
    THEN Outcome(u.val, u.err,
                 Append(looked, Ev("hook", path, InputFieldName(f), inputValue[1])))
    ELSE Scalared(setWithProperType(f.type, inputValue[1], u.val),
                  Append(looked, Ev("scalar", path, InputFieldName(f), inputValue[1])))

\* lines 105 to 126, once unmarshalField returned u
AfterFieldHook(f, inputValue, u, path, looked) ==
    IF u.ok
    THEN Outcome(u.val, u.err,
                 Append(looked, Ev("hook", path, InputFieldName(f), inputValue[1])))
    ELSE IF f.type.kind = "slice" /\ Len(inputValue) > 0
    THEN Expanded(FillSlice(f.type.elem, inputValue, 1,
                            [i \in DOMAIN inputValue |-> Zero(f.type.elem)]),
                  u.val,
                  Append(looked, Ev("expand", path, InputFieldName(f), <<>>)))
    ELSE Scalared(setWithProperType(f.type, inputValue[1], u.val),
                  Append(looked, Ev("scalar", path, InputFieldName(f), inputValue[1])))

\* lines 105 to 126 for a field whose key is in the value source: the read of
\* inputValue[0] panics when the key holds no value
BindPresent(f, slot, inputValue, path, looked) ==
    IF inputValue = <<>> THEN Outcome(slot, "panic", looked)
    ELSE AfterFieldHook(f, inputValue, unmarshalField(f.type, inputValue[1], slot),
                        path, looked)

\* lines 100 to 126, were a field without key reset to its zero
BindFieldZeroing(f, slot, src, path) ==
    IF InputFieldName(f) \notin DOMAIN src
    THEN Outcome(Zero(f.type), "nil", <<Ev("lookup", path, InputFieldName(f), <<>>)>>)
    ELSE BindPresent(f, slot, src[InputFieldName(f)], path,
                     <<Ev("lookup", path, InputFieldName(f), <<>>)>>)

\* lines 100 to 126 for one field that is looked up
BindField(f, slot, src, path) ==
    IF InputFieldName(f) \notin DOMAIN src
    THEN Outcome(slot, "nil", <<Ev("lookup", path, InputFieldName(f), <<>>)>>)
    ELSE BindPresent(f, slot, src[InputFieldName(f)], path,
                     <<Ev("lookup", path, InputFieldName(f), <<>>)>>)

\* the loop of bindData (lines 80 to 127) from field i on, over the fields'
\* values fs of a struct of type T reached by path
RECURSIVE BindFields(_, _, _, _, _, _)
\* the loop's body, were the loop to go on after a field's error
BindNextNotStopping(T, fs, src, i, path, r) ==
    BindFields(T, fs, src, i + 1, path, r.log)

\* the loop's body once field i got the outcome r (of the recursive call of
\* line 93, or of lines 100 to 126)
BindNext(T, fs, src, i, path, r) ==
    IF r.err # "nil" THEN Outcome(fs, r.err, r.log)
    ELSE BindFields(T, fs, src, i + 1, path, r.log)

\* the outcome r of the looked-up field i: its value stored, its steps after steps
Looked(T, fs, src, i, path, steps, r) ==
    BindNext(T, [fs EXCEPT ![i] = r.val], src, i, path,
             Outcome(r.val, r.err, steps \o r.log))

\* the recursive call's outcome, were its error dropped (no return at line 95)
RecursedDroppingError(T, fs, src, i, path, r) ==
    BindNext(T, [fs EXCEPT ![i] = StructV(r.val)], src, i, path,
             Outcome(r.val, "nil", r.log))

\* the outcome r of the recursive call for the nested struct i
Recursed(T, fs, src, i, path, r) ==
    BindNext(T, [fs EXCEPT ![i] = StructV(r.val)], src, i, path, r)

BindFields(T, fs, src, i, path, steps) ==
    IF i > Len(T.fields) THEN Outcome(fs, "nil", steps)
    ELSE IF ~T.fields[i].settable THEN BindFields(T, fs, src, i + 1, path, steps)
    ELSE IF T.fields[i].tag = "" /\ T.fields[i].type.kind = "struct"
    THEN Recursed(T, fs, src, i, path,
                  BindFields(T.fields[i].type, fs[i].fs, src, 1, Append(path, i),
                             Append(steps, Ev("recurse", Append(path, i), T.fields[i].name, <<>>))))
    ELSE Looked(T, fs, src, i, path, steps,
                BindField(T.fields[i], fs[i], src, Append(path, i)))

Bound(r) == Outcome(StructV(r.val), r.err, r.log)

\* bindData(ptr, data): d is the destination handed over as ptr
bindData(d, src) ==
    IF d.shape = "value" THEN [val |-> d.val, err |-> "panic", log |-> <<>>]
    ELSE IF d.type.kind # "struct"
    THEN [val |-> d.val, err |-> "binding element must be a struct", log |-> <<>>]
    ELSE Bound(BindFields(d.type, d.val.fs, src, 1, <<>>, <<>>))

-----------------------------------------------------------------------------
(* The content dispatcher *)

NoError == [class |-> "nil", code |-> 0, msg |-> "nil"]
Panic == [class |-> "panic", code |-> 0, msg |-> "panic"]

\* an error of errors.New or of strconv, as bindData returns it
PlainError(msg) ==
    CASE msg = "nil" -> NoError
      [] msg = "panic" -> Panic
      [] OTHER -> [class |-> "error", code |-> 0, msg |-> msg]

NewHTTPError(code, msg) == [class |-> "HTTPError", code |-> code, msg |-> msg]

StatusBadRequest == 400

ErrUnsupportedMediaType == NewHTTPError(415, "Unsupported Media Type")

GET == "GET"
MIMEApplicationJSON == <<"application/", "json">>
MIMEApplicationXML == <<"application/", "xml">>
MIMEApplicationForm == <<"application/", "x-www-form-urlencoded">>
MIMEMultipartForm == <<"multipart/", "form-data">>

\* strings.HasPrefix
HasPrefix(s, prefix) ==
    Len(prefix) <= Len(s) /\ SubSeq(s, 1, Len(prefix)) = prefix

\* lines 32 to 34 and 65 to 67, were the error of line 77 returned as it is
WrappedApart(r, from) ==
    [val |-> r.val,
     err |-> IF r.err \in {"nil", "panic", "binding element must be a struct"}
             THEN PlainError(r.err)
             ELSE NewHTTPError(StatusBadRequest, r.err),
     log |-> <<Ev("bindData", <<>>, from, <<>>)>> \o r.log]

\* lines 32 to 34 and 65 to 67: bindData, its error wrapped
Wrapped(r, from) ==
    [val |-> r.val,
     err |-> IF r.err \in {"nil", "panic"} THEN PlainError(r.err)
             ELSE NewHTTPError(StatusBadRequest, r.err),
     log |-> <<Ev("bindData", <<>>, from, <<>>)>> \o r.log]

BindParams(d, params, from) == Wrapped(bindData(d, params), from)

\* lines 45 to 63: a codec's Decode and the reclassification of its error.
\* out is what the codec did: the error it returned and the value it left
DecodeBody(codec, out) ==
    [val |-> out.val,
     err |-> CASE out.err = "nil" -> NoError
               [] out.err = "type" /\ codec = "json" ->
                    NewHTTPError(StatusBadRequest, "unmarshal type error")
               [] out.err = "type" /\ codec = "xml" ->
                    NewHTTPError(StatusBadRequest, "unsupported type error")
               [] out.err = "syntax" ->
                    NewHTTPError(StatusBadRequest, "syntax error")
               [] OTHER -> NewHTTPError(StatusBadRequest, out.err),
     log |-> <<Ev("codec", <<>>, codec, <<>>)>>]

\* binder.Bind, were the content type looked at before the body
BindRequestTypeFirst(d, r, out) ==
    IF r.method = GET THEN BindParams(d, r.query, "query")
    ELSE IF /\ ~HasPrefix(r.ctype, MIMEApplicationJSON)
            /\ ~HasPrefix(r.ctype, MIMEApplicationXML)
            /\ ~HasPrefix(r.ctype, MIMEApplicationForm)
            /\ ~HasPrefix(r.ctype, MIMEMultipartForm)
    THEN [val |-> d.val, err |-> ErrUnsupportedMediaType, log |-> <<>>]
    ELSE IF ~r.body
    THEN [val |-> d.val,
          err |-> NewHTTPError(StatusBadRequest, "request body can't be empty"),
          log |-> <<>>]
    ELSE IF HasPrefix(r.ctype, MIMEApplicationJSON) THEN DecodeBody("json", out)
    ELSE IF HasPrefix(r.ctype, MIMEApplicationXML) THEN DecodeBody("xml", out)
    ELSE BindParams(d, r.form, "form")

\* binder.Bind(i, c): d is the destination i, r the request of c
BindRequest(d, r, out) ==
    IF r.method = GET THEN BindParams(d, r.query, "query")
    ELSE IF ~r.body
    THEN [val |-> d.val,
          err |-> NewHTTPError(StatusBadRequest, "request body can't be empty"),
          log |-> <<>>]
    ELSE IF HasPrefix(r.ctype, MIMEApplicationJSON) THEN DecodeBody("json", out)
    ELSE IF HasPrefix(r.ctype, MIMEApplicationXML) THEN DecodeBody("xml", out)
    ELSE IF HasPrefix(r.ctype, MIMEApplicationForm) \/ HasPrefix(r.ctype, MIMEMultipartForm)
    THEN BindParams(d, r.form, "form")
    ELSE [val |-> d.val, err |-> ErrUnsupportedMediaType, log |-> <<>>]

-----------------------------------------------------------------------------
(* Destinations *)

\* a value of type T in which nothing is zero
RECURSIVE Populated(_)
Populated(T) ==
    CASE T.kind = "struct" ->
            StructV([i \in DOMAIN T.fields |-> Populated(T.fields[i].type)])
      [] T.kind # "struct" /\ T.hook -> CustomV(<<"o">>)
      [] T.kind \in SignedKinds \cup UnsignedKinds -> IntV(FALSE, <<7>>)
      [] T.kind \in FloatKinds -> FloatV(FALSE, <<2, 5>>, 1)
      [] T.kind = "bool" -> BoolV(TRUE)
      [] T.kind = "string" -> StrV(<<"o">>)
      [] T.kind = "ptr" -> PtrV(Populated(T.elem))
      [] T.kind = "slice" -> SliceV(<<Populated(T.elem)>>)
      [] OTHER -> OpaqueV

Custom == WithHook(OfKind("int"))

\* the struct types the populator is run on
Schemas ==
    { StructOf(<<Field("A", "", TRUE, OfKind("int8")),
                 Field("B", "", TRUE, OfKind("string")),
                 Field("L", "", TRUE, SliceOf(OfKind("string")))>>),
      StructOf(<<Field("P", "A", TRUE, PtrTo(OfKind("string"))),
                 Field("B", "", TRUE, OfKind("bool")),
                 Field("L", "", TRUE, SliceOf(OfKind("int8")))>>),
      StructOf(<<Field("A", "", TRUE, Custom),
                 Field("B", "", TRUE, PtrTo(Custom)),
                 Field("L", "", TRUE, WithHook(SliceOf(OfKind("string"))))>>),
      StructOf(<<Field("N", "", TRUE,
                       StructOf(<<Field("A", "", TRUE, OfKind("int16")),
                                  Field("M", "", TRUE,
                                        StructOf(<<Field("B", "", TRUE, OfKind("uint8"))>>))>>)),
                 Field("L", "", TRUE, SliceOf(Custom))>>),
      StructOf(<<Field("a", "A", FALSE, OfKind("int")),
                 Field("N", "N", TRUE, StructOf(<<Field("B", "", TRUE, OfKind("string"))>>)),
                 Field("B", "", TRUE, OfKind("float64")),
                 Field("L", "", TRUE, SliceOf(PtrTo(OfKind("string"))))>>),
      StructOf(<<Field("N", "", TRUE,
                       WithHook(StructOf(<<Field("A", "", TRUE, OfKind("uint16"))>>))),
                 Field("B", "", TRUE, OfKind("map")),
                 Field("L", "", TRUE, SliceOf(OfKind("bool")))>>),
      StructOf(<<Field("X", "B", TRUE, OfKind("float32")),
                 Field("A", "", TRUE, PtrTo(OfKind("int"))),
                 Field("L", "", TRUE, OfKind("string"))>>) }

\* a destination: how it is handed over (a pointer, or the value itself), its
\* type and its value
Dest(shape, T, v) == [shape |-> shape, type |-> T, val |-> v]

-----------------------------------------------------------------------------
(* Value sources *)

Absent == [has |-> FALSE, vals |-> <<>>]
Given(vals) == [has |-> TRUE, vals |-> vals]

Texts == {<<"1">>, <<"x">>, <<>>}

\* what a key that holds at most one value may hold
SingleChoices == {Absent, Given(<<>>)} \cup {Given(<<t>>) : t \in Texts}

ListTexts == {<<"1">>, <<"x">>}

\* what the key "L" may hold: up to MaxVals values
ListChoices ==
    {Absent} \cup UNION {{Given(l) : l \in [1..n -> ListTexts]} : n \in 0..MaxVals}

NameChoices == {Absent, Given(<<<<"1">>>>)}

Keys == {"A", "B", "N", "L"}

Params(a, b, n, l) ==
    LET c == [k \in Keys |->
                CASE k = "A" -> a [] k = "B" -> b [] k = "N" -> n [] k = "L" -> l]
    IN  [k \in {k \in Keys : c[k].has} |-> c[k].vals]

DataSet ==
    {Params(a, b, n, l) :
        a \in SingleChoices, b \in SingleChoices, n \in NameChoices, l \in ListChoices}

NoParams == [k \in {} |-> <<>>]

\* the value sources of the requests handed to Bind
RequestParams ==
    {Params(a, Absent, Absent, l) :
        a \in {Absent, Given(<<<<"1">>>>), Given(<<<<"x">>>>)},
        l \in {Absent, Given(<<<<"1">>, <<"x">>>>)}}

\* the texts handed to setWithProperType by a direct call
CoerceTexts ==
    {
      <<>>, <<"0">>, <<"7">>, <<"-","1">>, <<"+","5">>, <<"-","0">>, <<"0","0","7">>,
      <<"1","2","7">>, <<"1","2","8">>, <<"-","1","2","8">>, <<"-","1","2","9">>,
      <<"2","5","5">>, <<"2","5","6">>, <<"3","2","7","6","7">>, <<"3","2","7","6","8">>,
      <<"-","3","2","7","6","8">>, <<"-","3","2","7","6","9">>, <<"6","5","5","3","5">>,
      <<"6","5","5","3","6">>, <<"2","1","4","7","4","8","3","6","4","7">>,
      <<"2","1","4","7","4","8","3","6","4","8">>,
      <<"-","2","1","4","7","4","8","3","6","4","8">>,
      <<"-","2","1","4","7","4","8","3","6","4","9">>,
      <<"4","2","9","4","9","6","7","2","9","5">>,
      <<"4","2","9","4","9","6","7","2","9","6">>,
      <<"9","2","2","3","3","7","2","0","3","6","8","5","4","7","7","5","8","0","7">>,
      <<"9","2","2","3","3","7","2","0","3","6","8","5","4","7","7","5","8","0","8">>,
      <<"-","9","2","2","3","3","7","2","0","3","6","8","5","4","7","7","5","8","0","8">>,
      <<"-","9","2","2","3","3","7","2","0","3","6","8","5","4","7","7","5","8","0","9">>,
      <<"1","8","4","4","6","7","4","4","0","7","3","7","0","9","5","5","1","6","1","5">>,
      <<"1","8","4","4","6","7","4","4","0","7","3","7","0","9","5","5","1","6","1","6">>,
      <<"x">>, <<"1","x">>, <<"-">>, <<"+">>, <<"+","-","1">>, <<"1",".","5">>,
      <<"-","2",".","5","0">>, <<".","5">>, <<"1",".">>, <<".">>,
      <<"1",".","2",".","3">>, <<"1","e","3">>, <<"1","5","E","-","1">>, <<"1","e">>,
      <<"e","5">>, <<"1","e","+">>, <<"3",".","4","e","3","8">>,
      <<"3",".","5","e","3","8">>, <<"1","e","3","9">>, <<"1",".","7","e","3","0","8">>,
      <<"1",".","8","e","3","0","8">>, <<"-","1","e","4","0","0">>,
      <<"1","e","-","4","0","0">>, <<"0","e","9","9","9">>, <<"i","n","f">>,
      <<"-","I","n","f">>, <<"+","I","n","f","i","n","i","t","y">>, <<"i","n","f","i">>,
      <<"N","a","N">>, <<"-","n","a","n">>, <<"t","r","u","e">>, <<"f","a","l","s","e">>,
      <<"T">>, <<"F">>, <<"t">>, <<"f">>, <<"T","R","U","E">>, <<"T","r","u","e">>,
      <<"F","A","L","S","E">>, <<"F","a","l","s","e">>, <<"y","e","s">>,
      <<"t","R","u","E">>, <<"o">> }

\* the types of the slots handed to setWithProperType by a direct call
CoerceTypes ==
    {OfKind(k) : k \in ScalarKinds} \cup {OfKind("map"), StructOf(<<>>), Custom}

-----------------------------------------------------------------------------
(* The calls *)

\* what a codec may do with the destination: the error it returns, the value it leaves
CodecOutcomes(d) ==
    {[err |-> e, val |-> v] :
        e \in {"nil", "type", "syntax", "other"}, v \in {d.val, Populated(d.type)}}

ContentTypes ==
    { <<>>,
      MIMEApplicationJSON,
      MIMEApplicationJSON \o <<"; charset=UTF-8">>,
      MIMEApplicationXML,
      MIMEApplicationForm,
      MIMEMultipartForm \o <<"; boundary=x">>,
      <<"text/", "plain">>,
      <<"application/", "octet-stream">> }

BindSchema ==
    StructOf(<<Field("A", "", TRUE, OfKind("int8")),
               Field("L", "", TRUE, SliceOf(OfKind("string")))>>)

\* the destinations handed to Bind: a pointer to a struct, a pointer to
\* something else, a struct handed over by value
BindDests ==
    { Dest("ptr", BindSchema, Zero(BindSchema)),
      Dest("ptr", BindSchema, Populated(BindSchema)),
      Dest("ptr", OfKind("int"), Populated(OfKind("int"))),
      Dest("ptr", SliceOf(OfKind("string")), Zero(SliceOf(OfKind("string")))),
      Dest("value", BindSchema, Zero(BindSchema)) }

NoRequest ==
    [method |-> GET, ctype |-> <<>>, body |-> FALSE, query |-> NoParams, form |-> NoParams]

InitBind ==
    /\ op = "Bind"
    /\ \E m \in {GET, "POST"}, c \in ContentTypes, b \in BOOLEAN,
          p \in RequestParams, inQuery \in BOOLEAN :
            req = [method |-> m, ctype |-> c, body |-> b,
                   query |-> IF inQuery THEN p ELSE NoParams,
                   form |-> IF inQuery THEN NoParams ELSE p]
    /\ dst \in BindDests
    /\ data = NoParams
    /\ arg = <<>>

InitPopulate ==
    /\ op = "bindData"
    /\ req = NoRequest
    /\ \E T \in Schemas : dst \in {Dest("ptr", T, Zero(T)), Dest("ptr", T, Populated(T))}
    /\ data \in DataSet
    /\ arg = <<>>

InitCoerce ==
    /\ op = "setWithProperType"
    /\ req = NoRequest
    /\ \E T \in CoerceTypes : dst \in {Dest("ptr", T, Zero(T)), Dest("ptr", T, Populated(T))}
    /\ data = NoParams
    /\ arg \in CoerceTexts

Init ==
    /\ (InitBind \/ InitPopulate \/ InitCoerce)
    /\ pc = "call"
    /\ entry = dst.val
    /\ err = NoError
    /\ log = <<>>

\* the call returns (or panics with) r: the destination's value, the error, the steps
Returns(r) ==
    /\ dst' = [dst EXCEPT !.val = r.val]
    /\ err' = r.err
    /\ log' = r.log

Plain(r) == Outcome(r.val, PlainError(r.err), r.log)

PlainCoerced(r) ==
    Outcome(r.val, PlainError(r.err),
            <<Ev(IF r.hook THEN "hook" ELSE "scalar", <<>>, "", arg)>>)

\* a call of binder.Bind
Bind ==
    /\ pc = "call"
    /\ op = "Bind"
    /\ \E out \in CodecOutcomes(dst) : Returns(BindRequest(dst, req, out))
    /\ pc' = "done"
    /\ UNCHANGED <<op, req, entry, data, arg>>

\* a call of binder.bindData
Populate ==
    /\ pc = "call"
    /\ op = "bindData"
    /\ Returns(Plain(bindData(dst, data)))
    /\ pc' = "done"
    /\ UNCHANGED <<op, req, entry, data, arg>>

\* a call of setWithProperType on a slot of the destination's type
Coerce ==
    /\ pc = "call"
    /\ op = "setWithProperType"
    /\ Returns(PlainCoerced(setWithProperType(dst.type, arg, dst.val)))
    /\ pc' = "done"
    /\ UNCHANGED <<op, req, entry, data, arg>>

Next == Bind \/ Populate \/ Coerce

Spec == Init /\ [][Next]_vars

-----------------------------------------------------------------------------
(* The fields of the destination record, by path *)

RECURSIVE FieldAt(_, _)
FieldAt(T, p) ==
    IF Len(p) = 1 THEN T.fields[p[1]] ELSE FieldAt(T.fields[p[1]].type, Tail(p))

RECURSIVE ValueAt(_, _)
ValueAt(v, p) == IF p = <<>> THEN v ELSE ValueAt(v.fs[p[1]], Tail(p))

\* a nested record the walk recurses into
Flattened(f) == f.settable /\ f.tag = "" /\ f.type.kind = "struct"

\* the fields the walk meets and does not recurse into, at any depth
RECURSIVE WalkPaths(_, _)
WalkPaths(T, prefix) ==
    UNION {IF Flattened(T.fields[i])
           THEN WalkPaths(T.fields[i].type, Append(prefix, i))
           ELSE {Append(prefix, i)} : i \in DOMAIN T.fields}

\* the nested records the walk recurses into, at any depth
RECURSIVE FlattenedPaths(_, _)
FlattenedPaths(T, prefix) ==
    UNION {IF Flattened(T.fields[i])
           THEN {Append(prefix, i)} \cup FlattenedPaths(T.fields[i].type, Append(prefix, i))
           ELSE {} : i \in DOMAIN T.fields}

\* p comes before q in declared order
Before(p, q) ==
    \E i \in DOMAIN p \cap DOMAIN q : p[i] < q[i] /\ \A j \in 1..(i - 1) : p[j] = q[j]

\* p is inside the nested record at path n
Inside(p, n) == Len(n) < Len(p) /\ SubSeq(p, 1, Len(n)) = n

PopulateDone == pc = "done" /\ op = "bindData"

Fields == WalkPaths(dst.type, <<>>)
Nested == FlattenedPaths(dst.type, <<>>)
FieldOf(p) == FieldAt(dst.type, p)
KeyOf(p) == InputFieldName(FieldOf(p))
Present(p) == KeyOf(p) \in DOMAIN data
Now(p) == ValueAt(dst.val, p)
OnEntry(p) == ValueAt(entry, p)
Unchanged(p) == Now(p) = OnEntry(p)

\* the steps of kind ev the call took for the field at p
Steps(p, evs) == {i \in DOMAIN log : log[i].path = p /\ log[i].ev \in evs}

\* the walk looked the field's key up
LookedUp(p) == Steps(p, {"lookup"}) # {}

\* the field got a value on one of the three paths
Written(p) == Steps(p, {"hook", "expand", "scalar"}) # {} /\ ~Unchanged(p)

\* what lines 100 to 126 do with the field at p, taken alone from its entry value
Alone(p) == BindField(FieldOf(p), OnEntry(p), data, p)

\* the settable fields whose key is present and whose hook or coercion fails
Failing == {p \in Fields : FieldOf(p).settable /\ Present(p) /\ Alone(p).err # "nil"}

-----------------------------------------------------------------------------
(* C1 *)

\* C1: after populate, a field whose source key is absent from the value source
\* (and any field that cannot be set) holds the value it had on entry; a
\* pointer field without a matching key is neither allocated nor nulled.  Only
\* fields whose key is present, nested fields of flattened records included,
\* may differ.
C1_AbsentKeysUntouched ==
    PopulateDone =>
        \A p \in Fields : (~FieldOf(p).settable \/ ~Present(p)) => Unchanged(p)

\* a nil pointer field without a key is still nil after a call that wrote
\* another field
C1_Witness ==
    /\ PopulateDone
    /\ err = NoError
    /\ \E p \in Fields, q \in Fields :
        /\ FieldOf(p).settable /\ ~Present(p)
        /\ FieldOf(p).type.kind = "ptr"
        /\ OnEntry(p) = NilV /\ Now(p) = NilV
        /\ Present(q) /\ ~Unchanged(q)

-----------------------------------------------------------------------------
(* C2 *)

\* the field at p is a settable pointer to a scalar kind, without hook, whose
\* key is present with a first value that parses as the pointee's kind
ParsablePointer(p) ==
    /\ FieldOf(p).settable
    /\ FieldOf(p).type.kind = "ptr"
    /\ FieldOf(p).type.elem.kind \in ScalarKinds
    /\ ~FieldOf(p).type.elem.hook
    /\ Present(p)
    /\ data[KeyOf(p)] # <<>>
    /\ SetByKind(FieldOf(p).type.elem.kind, data[KeyOf(p)][1], Zero(FieldOf(p).type.elem)).err = "nil"

\* C2: for a pointer field whose key is present with a value that parses as the
\* pointee's kind, populate succeeds, the field is not nil and its pointee is
\* what the non-pointer coercion gives for that text.  (Stated for the calls in
\* which no other field fails.)
C2_PointerFieldBound ==
    PopulateDone =>
        \A p \in Fields :
            (ParsablePointer(p) /\ Failing \subseteq {p}) =>
                /\ err = NoError
                /\ Now(p) # NilV
                /\ Now(p) = PtrV(SetByKind(FieldOf(p).type.elem.kind, data[KeyOf(p)][1],
                                           Zero(FieldOf(p).type.elem)).val)
-----------------------------------------------------------------------------
(* C3 *)

\* the type's hook is the one lines 279 to 306 find: the type's own, or for a
\* pointer its pointee's
HookFound(T) == IF T.kind = "ptr" THEN T.elem.hook ELSE T.hook

\* the path the precedence rule gives the field
PathFor(f) ==
    IF HookFound(f.type) THEN "hook"
    ELSE IF f.type.kind = "slice" THEN "expand"
    ELSE "scalar"

\* exactly one step decided the field at p, the one the precedence rule names,
\* and the hook or the scalar coercion got values[0]
Decided(p) ==
    /\ Cardinality(Steps(p, {"hook", "expand", "scalar"})) = 1
    /\ \A i \in Steps(p, {"hook", "expand", "scalar"}) :
        /\ log[i].ev = PathFor(FieldOf(p))
        /\ log[i].ev \in {"hook", "scalar"} => log[i].text = data[KeyOf(p)][1]
        /\ log[i].ev = "hook" =>
            LET T == IF FieldOf(p).type.kind = "ptr" THEN FieldOf(p).type.elem
                     ELSE FieldOf(p).type
                u == UnmarshalParam(data[KeyOf(p)][1], T)
            IN /\ Now(p) = IF FieldOf(p).type.kind = "ptr" THEN PtrV(u.val) ELSE u.val
               /\ u.err # "nil" => err = PlainError(u.err) /\ i = Len(log)
               /\ u.err = "nil" /\ i = Len(log) => err = NoError

\* C3: for every field populate looks up (a settable field other than an
\* untagged nested record, which C5 covers) whose key is present with at least
\* one value, exactly one of three paths decides the outcome, in this order:
\* the type's hook, called with values[0], whose result is the field's result
\* and which excludes the other two; else, for a sequence field, per-element
\* expansion; else scalar coercion of values[0].
C3_HookThenSequenceThenScalar ==
    PopulateDone =>
        \A p \in Fields :
            (FieldOf(p).settable /\ LookedUp(p) /\ Present(p) /\ data[KeyOf(p)] # <<>>)
                => Decided(p)

\* a sequence type with the hook was given two values: the hook got the first
\* and no expansion happened
C3_Witness ==
    /\ PopulateDone
    /\ \E p \in Fields :
        /\ FieldOf(p).type.kind = "slice" /\ FieldOf(p).type.hook
        /\ Present(p) /\ Len(data[KeyOf(p)]) >= 2
        /\ Steps(p, {"hook"}) # {} /\ Steps(p, {"expand", "scalar"}) = {}
        /\ Now(p) = CustomV(data[KeyOf(p)][1])
    /\ \E q \in Fields : FieldOf(q).type.kind = "ptr" /\ Steps(q, {"hook"}) # {}

-----------------------------------------------------------------------------
(* C4 *)

\* the coercion of one element of a sequence field, from the element's zero
Element(T, text) == setWithProperType(T, text, Zero(T))

\* the field at p is a settable sequence field without hook, reached by the
\* walk, whose key has at least one value and all of whose values coerce
CoercibleSequence(p) ==
    /\ FieldOf(p).settable
    /\ FieldOf(p).type.kind = "slice"
    /\ ~FieldOf(p).type.hook
    /\ LookedUp(p) /\ Present(p)
    /\ Len(data[KeyOf(p)]) > 0
    /\ \A i \in DOMAIN data[KeyOf(p)] :
        Element(FieldOf(p).type.elem, data[KeyOf(p)][i]).err = "nil"

\* C4: a sequence field without hook whose key has N > 0 values, each of which
\* coerces, holds after populate a sequence of exactly N elements, element i
\* the coercion of values[i], in place of whatever it held before.
C4_SequenceReplaced ==
    PopulateDone =>
        \A p \in Fields :
            CoercibleSequence(p) =>
                Now(p) = SliceV([i \in DOMAIN data[KeyOf(p)] |->
                                 Element(FieldOf(p).type.elem, data[KeyOf(p)][i]).val])

\* a sequence that held one element on entry holds the two or more coerced
\* values after the call
C4_Witness ==
    /\ PopulateDone
    /\ err = NoError
    /\ \E p \in Fields :
        /\ CoercibleSequence(p)
        /\ Len(OnEntry(p).elems) = 1
        /\ Len(data[KeyOf(p)]) >= 2
        /\ Len(Now(p).elems) = Len(data[KeyOf(p)])
        /\ FieldOf(p).type.elem.kind = "int8"
-----------------------------------------------------------------------------
(* C5 *)

\* the value source without the key k
Without(src, k) == [x \in DOMAIN src \ {k} |-> src[x]]

\* the fields the walk looks up inside the nested record at path n
FieldsInside(n) == {p \in Fields : Inside(p, n) /\ FieldOf(p).settable}

\* no looked-up field of the destination resolves to the key k
KeyUnused(k) == \A p \in Fields : KeyOf(p) # k

\* C5: for a settable nested-record field without source-key annotation,
\* populate never looks up the outer field's name; it recurses with the same
\* value source, so that after a successful call a nested field, at any depth,
\* was bound iff its own key is present; a key equal to the outer field's name
\* changes nothing; and the error of the recursive call is the error of the
\* outer call.
C5_NestedRecordFlattened ==
    PopulateDone =>
        \A n \in Nested :
            /\ Steps(n, {"lookup", "hook", "expand", "scalar"}) = {}
            /\ KeyUnused(FieldOf(n).name) =>
                /\ dst.val = bindData([dst EXCEPT !.val = entry],
                                      Without(data, FieldOf(n).name)).val
                /\ err = PlainError(bindData([dst EXCEPT !.val = entry],
                                             Without(data, FieldOf(n).name)).err)
            /\ err = NoError =>
                \A p \in FieldsInside(n) :
                    /\ Present(p) => Alone(p).err = "nil" /\ Now(p) = Alone(p).val
                                     /\ Steps(p, {"hook", "expand", "scalar"}) # {}
                    /\ ~Present(p) => Unchanged(p)
                                      /\ Steps(p, {"hook", "expand", "scalar"}) = {}
            /\ \A p \in FieldsInside(n) :
                (LookedUp(p) /\ Present(p) /\ Alone(p).err # "nil")
                    => err = PlainError(Alone(p).err)

\* a call given a key equal to the outer field's name wrote a field two
\* records deep by that field's own key, and nothing of the record next to it,
\* whose key is absent
C5_Witness ==
    /\ PopulateDone
    /\ err = NoError
    /\ \E n \in Nested, p \in Fields, q \in Fields :
        /\ FieldOf(n).name \in DOMAIN data
        /\ Inside(p, n) /\ Len(p) = 3 /\ Present(p) /\ ~Unchanged(p)
        /\ Inside(q, n) /\ ~Present(q) /\ Unchanged(q)

\* a call returned the error of a field inside a nested record
C5_ErrorWitness ==
    /\ PopulateDone
    /\ err.class = "error"
    /\ \E n \in Nested, p \in Fields :
        Inside(p, n) /\ Len(p) = 3 /\ LookedUp(p) /\ Present(p) /\ Alone(p).err = err.msg

-----------------------------------------------------------------------------
(* C6 *)

BindDone == pc = "done" /\ op = "Bind"

\* the content type begins with one of the four prefixes of lines 44 to 64
Recognised(ctype) ==
    \/ HasPrefix(ctype, MIMEApplicationJSON)
    \/ HasPrefix(ctype, MIMEApplicationXML)
    \/ HasPrefix(ctype, MIMEApplicationForm)
    \/ HasPrefix(ctype, MIMEMultipartForm)

ErrEmptyBody == NewHTTPError(StatusBadRequest, "request body can't be empty")

\* C6: for a request whose method is not GET, Bind fails with the empty-body
\* error when there is no body, whatever the content type; otherwise with
\* ErrUnsupportedMediaType when the content type begins with none of the four
\* prefixes.  In both cases no codec and no bindData ran and the destination
\* is as on entry.
C6_EmptyBodyThenMediaType ==
    (BindDone /\ req.method # GET) =>
        /\ ~req.body => err = ErrEmptyBody /\ log = <<>> /\ dst.val = entry
        /\ (req.body /\ ~Recognised(req.ctype))
                => err = ErrUnsupportedMediaType /\ log = <<>> /\ dst.val = entry
        /\ (req.body /\ Recognised(req.ctype)) => log # <<>>

\* a POST without body and with a content type no branch recognises failed
\* with the empty-body error
C6_Witness ==
    /\ BindDone
    /\ req.method # GET /\ ~req.body /\ ~Recognised(req.ctype) /\ req.ctype # <<>>
    /\ req.form # NoParams
    /\ err = ErrEmptyBody

-----------------------------------------------------------------------------
(* C7 *)

\* the first field, in declared order, whose hook or coercion fails
FirstFailing == {p \in Failing : \A q \in Failing : ~Before(q, p)}

\* the settable fields whose key is present
Keyed == {p \in Fields : FieldOf(p).settable /\ Present(p)}

\* C7: populate stops at the first field, in declared order, whose hook or
\* coercion fails: the call returns that field's error, every earlier field
\* whose key is present holds its bound value and every later field, those of
\* later flattened records included, holds its entry value.  The call returns
\* success only if every field whose key is present was bound.  ("Field" is a
\* settable field the walk looks up; calls that end in a run-time panic return
\* nothing and are left to C10.)
C7_StopsAtFirstFailure ==
    (PopulateDone /\ err.class # "panic") =>
        /\ \A f \in FirstFailing :
            /\ err = PlainError(Alone(f).err)
            /\ Now(f) = Alone(f).val
            /\ \A p \in Keyed : Before(p, f) => Now(p) = Alone(p).val /\ LookedUp(p)
            /\ \A p \in Fields : Before(f, p) => Unchanged(p) /\ ~LookedUp(p)
        /\ err = NoError <=> Failing = {}
        /\ err = NoError =>
            \A p \in Keyed : Now(p) = Alone(p).val
                             /\ Steps(p, {"hook", "expand", "scalar"}) # {}

\* a call failed at a field with a bound field before it and, after it, a
\* field of a flattened record whose key is present with a value that coerces
C7_Witness ==
    /\ PopulateDone
    /\ err.class = "error"
    /\ \E f \in FirstFailing, p \in Keyed, q \in Keyed :
        /\ Before(p, f) /\ ~Unchanged(p)
        /\ Before(f, q) /\ Alone(q).err = "nil" /\ Alone(q).val # OnEntry(q)
        /\ Unchanged(q)
-----------------------------------------------------------------------------
(* C8 *)

ErrNotAStruct == "binding element must be a struct"

\* Bind hands the destination to bindData: the query of a GET, or the form of
\* another request with a body
ToBindData ==
    \/ req.method = GET
    \/ /\ req.body
       /\ ~HasPrefix(req.ctype, MIMEApplicationJSON)
       /\ ~HasPrefix(req.ctype, MIMEApplicationXML)
       /\ HasPrefix(req.ctype, MIMEApplicationForm) \/ HasPrefix(req.ctype, MIMEMultipartForm)

\* Bind was called with a pointer to something that is not a struct
NotAStructCall == BindDone /\ ToBindData /\ dst.shape = "ptr" /\ dst.type.kind # "struct"

\* Bind returned the error of a field's coercion
CoercionErrorCall ==
    /\ BindDone /\ ToBindData /\ dst.shape = "ptr" /\ dst.type.kind = "struct"
    /\ err.class \notin {"nil", "panic"}

\* C8 as stated: the error Bind returns for a destination that is not a struct
\* is of another class than the client-input error it returns for a failure
\* that comes from the data, such as a coercion error.
C8_NotAStructSurfacedDistinctly ==
    NotAStructCall =>
        err.class # NewHTTPError(StatusBadRequest, "syntax").class

\* C8, amended: for a destination that is not a struct, on the query path and
\* on the form path, Bind returns the error of bindData wrapped like every
\* other error of bindData: an HTTP error of status 400, of the same class and
\* status as a coercion error, told apart only by its message, "binding
\* element must be a struct".  The destination is not written.
C8_NotAStructWrappedAsBadRequest ==
    /\ NotAStructCall =>
        /\ err = NewHTTPError(StatusBadRequest, ErrNotAStruct)
        /\ dst.val = entry
    /\ CoercionErrorCall =>
        /\ err.class = "HTTPError" /\ err.code = StatusBadRequest
        /\ err.msg # ErrNotAStruct

\* a POST of a form to a destination that is not a struct returned status 400
C8_Witness ==
    /\ NotAStructCall
    /\ req.method # GET
    /\ req.form # NoParams
    /\ err.class = "HTTPError" /\ err.code = 400 /\ err.msg = ErrNotAStruct

-----------------------------------------------------------------------------
(* C9 *)

CoerceDone == pc = "done" /\ op = "setWithProperType"

\* strconv accepts s as a value of the kind, in range for its width
ParsesAs(kind, s) ==
    CASE kind \in SignedKinds -> ParseInt(s, BitSize(kind)).err = "nil"
      [] kind \in UnsignedKinds -> ParseUint(s, BitSize(kind)).err = "nil"
      [] kind \in FloatKinds -> ParseFloat(s, BitSize(kind)).err = "nil"
      [] kind = "bool" -> ParseBool(s).err = "nil"
      [] kind = "string" -> TRUE

\* the value strconv gives for s
ParsedAs(kind, s) ==
    CASE kind \in SignedKinds -> IntOf(ParseInt(s, BitSize(kind)))
      [] kind \in UnsignedKinds -> UintOf(ParseUint(s, BitSize(kind)))
      [] kind \in FloatKinds -> FloatOf(ParseFloat(s, BitSize(kind)))
      [] kind = "bool" -> BoolOf(ParseBool(s))
      [] kind = "string" -> StrV(s)

\* C9: for every scalar kind without hook (signed and unsigned integers of
\* every width, both floats, bool, string) and every text, the coercion of the
\* text into a slot of the kind succeeds iff the text parses as the kind, in
\* range for its width, or is empty; an empty text leaves the kind's zero in
\* the slot, a text that parses leaves its value, and a failed coercion leaves
\* the slot as it was.
C9_ScalarCoercion ==
    (CoerceDone /\ dst.type.kind \in ScalarKinds /\ ~dst.type.hook) =>
        /\ err = NoError <=> (ParsesAs(dst.type.kind, arg) \/ arg = <<>>)
        /\ arg = <<>> => dst.val = Zero(dst.type)
        /\ (arg # <<>> /\ ParsesAs(dst.type.kind, arg))
                => dst.val = ParsedAs(dst.type.kind, arg)
        /\ err # NoError => dst.val = entry

\* the empty text put zero into an 8-bit slot that held something else
C9_Witness ==
    /\ CoerceDone
    /\ dst.type = OfKind("int8")
    /\ arg = <<>>
    /\ entry # Zero(dst.type)
    /\ dst.val = Zero(dst.type)
    /\ err = NoError

\* a text out of range for 8 bits failed and left the slot as it was
C9_RangeWitness ==
    /\ CoerceDone
    /\ dst.type = OfKind("int8")
    /\ arg = <<"1", "2", "8">>
    /\ entry # Zero(dst.type)
    /\ dst.val = entry
    /\ err = PlainError("range")

-----------------------------------------------------------------------------
(* C10 *)

\* C10: for a field whose key is present with an empty sequence of values,
\* populate returns normally, without a run-time panic, and a sequence field
\* is then the empty sequence.
C10_EmptyValuesHandled ==
    PopulateDone =>
        \A p \in Fields :
            (FieldOf(p).settable /\ LookedUp(p) /\ Present(p) /\ data[KeyOf(p)] = <<>>) =>
                /\ err.class # "panic"
                /\ (FieldOf(p).type.kind = "slice" /\ ~FieldOf(p).type.hook /\ err = NoError)
                        => Now(p) = SliceV(<<>>)

=============================================================================
